---- MODULE Spec2Model ----
(***************************************************************************)
(* A model of the rax radix tree (rax.c): the packed node record, the      *)
(* walk, raxInsert, raxFind and raxRemove, at the level of the bytes of a  *)
(* node record, so that every memcpy / memmove / realloc of the C code is  *)
(* a step of the model.  A node record is the header bit-fields plus the   *)
(* bytes of data[]; a byte is a token that remembers what was written      *)
(* there.  The reference dictionary of the fuzz test runs beside the tree. *)
(***************************************************************************)
EXTENDS Integers, Sequences, FiniteSets, TLC

\* ------------------------------------------------------------------ bounds

\* Longest key the model inserts, removes or looks up.
MaxKeyLen == 3
\* Number of raxInsert and raxRemove calls of one run.
MaxCalls == 4
\* Largest non-null value (a value is 0, the NULL pointer, or 1..MaxVal).
MaxVal == 2
\* Largest number of node records allocated at once (reachable or leaked).
MaxAlloc == 5
\* The allocations of one call that succeed before one fails.
MaxFail == 2
\* Number of calls of one run of the out of memory test, the failing
\* insertion included.
MaxOomCalls == 3
\* Length of the longest key of the deep run, which inserts a, aa, ...
MaxDeep == 33
\* Calls of the deep run after its insertions.
MaxDeepCalls == 3

\* ------------------------------------------------------- program constants

\* sizeof(raxNode): one 32 bit word of bit-fields, then data[].
HDR == 4
\* sizeof(void*) and sizeof(raxNode*).
PTR == 8

\* The byte values keys are made of: one below 0x80 and one above.
Bytes == {97, 200}
Values == 0..MaxVal
\* The keys of a run: the prefixes of "aaa", and two keys with a high byte.
Keys == {k \in {<<>>, <<97>>, <<97, 97>>, <<97, 97, 97>>, <<200>>, <<97, 200>>} :
            Len(k) <= MaxKeyLen /\ \A t \in DOMAIN k : k[t] \in Bytes}

VARIABLES
    mem,        \* the heap: node address -> node record (reachable nodes)
    head,       \* rax->head
    numele,     \* rax->numele
    numnodes,   \* rax->numnodes
    leaked,     \* node records allocated, never freed and no longer linked
    ref,        \* the reference dictionary of the fuzz test: key -> value
    charSigned, \* whether plain char is signed in this build
    fault,      \* the last call ran into undefined behaviour
    calls,      \* the number of calls made so far
    last        \* the last call: the operation, its key, what the tree
                \* returned (ret) and what the reference dictionary did (ht)

vars == <<mem, head, numele, numnodes, leaked, ref, charSigned, fault, calls, last>>

\* ------------------------------------------------------------------- bytes

\* One byte of a record: <<kind, what, index>>.
\*   "e": an edge character      "p": byte `index` of a pointer to a node
\*   "v": byte `index` of a value pointer          "u": never written
\*   "s": byte `index` of the address of a local variable of the caller
\*   "n": byte `index` of the raxNotFound pointer
\*   "x": byte of a read outside the record (undefined)
EdgeByte(b) == <<"e", b, 0>>
Uninit == <<"u", 0, 0>>
Word(kind, a) == [k \in 1..PTR |-> <<kind, a, k - 1>>]
PtrWord(a) == Word("p", a)
ValWord(v) == Word("v", v)
StackWord == Word("s", 0)
UBWord == Word("x", 0)
NullWord == ValWord(0)

Fill(n) == [k \in 1..n |-> Uninit]
Min(a, b) == IF a < b THEN a ELSE b

\* The value a plain char holds for the byte b.
AsChar(b) == IF charSigned /\ b >= 128 THEN b - 256 ELSE b

\* ------------------------------------------------------------ node records

\* A node record: the four bit-fields, the allocated bytes after the header
\* and a flag set by an access outside the allocation.
NodeRec(iskey, isnull, iscompr, size, data) ==
    [iskey |-> iskey, isnull |-> isnull, iscompr |-> iscompr, size |-> size,
     data |-> data, oob |-> FALSE]

raxNewNode(children) ==
    NodeRec(FALSE, FALSE, FALSE, children, Fill(children + PTR * children))

raxNodeCurrentLength(n) ==
    HDR + n.size
        + (IF n.iscompr THEN PTR ELSE PTR * n.size)
        + (IF n.iskey /\ ~n.isnull THEN PTR ELSE 0)

\* The bytes [off, off+len) of data[] lie in the allocation.
InRecord(n, off, len) == off >= 0 /\ off + len <= Len(n.data)

\* memcpy(&w, n->data + off, PTR)
ReadWord(n, off) ==
    IF InRecord(n, off, PTR) THEN SubSeq(n.data, off + 1, off + PTR) ELSE UBWord

\* memcpy(n->data + off, &w, PTR)
WriteWord(n, off, w) ==
    IF InRecord(n, off, PTR)
    THEN [n EXCEPT !.data = SubSeq(n.data, 1, off) \o w
                                \o SubSeq(n.data, off + PTR + 1, Len(n.data))]
    ELSE [n EXCEPT !.oob = TRUE]

\* memcpy(n->data + off, s, Len(s)) for a string of characters s
WriteChars(n, off, s) ==
    IF InRecord(n, off, Len(s))
    THEN [n EXCEPT !.data = SubSeq(n.data, 1, off)
                                \o [k \in 1..Len(s) |-> EdgeByte(s[k])]
                                \o SubSeq(n.data, off + Len(s) + 1, Len(n.data))]
    ELSE [n EXCEPT !.oob = TRUE]

\* memmove(n->data + dst, n->data + src, len)
MemMove(n, dst, src, len) ==
    IF len <= 0 THEN n
    ELSE IF InRecord(n, dst, len) /\ InRecord(n, src, len)
    THEN [n EXCEPT !.data = SubSeq(n.data, 1, dst)
                                \o SubSeq(n.data, src + 1, src + len)
                                \o SubSeq(n.data, dst + len + 1, Len(n.data))]
    ELSE [n EXCEPT !.oob = TRUE]

\* realloc(n, len): the record keeps its first bytes.
Resize(n, len) ==
    [n EXCEPT !.data = IF len - HDR <= Len(n.data)
                       THEN SubSeq(n.data, 1, len - HDR)
                       ELSE n.data \o Fill(len - HDR - Len(n.data))]

\* n->data[j] read as an unsigned char.
EdgeAt(n, j) ==
    IF j >= 0 /\ j < Len(n.data) /\ n.data[j + 1][1] = "e"
    THEN n.data[j + 1][2] ELSE -1

\* The characters of the node, n->data[0 .. size-1].
Edges(n) == [j \in 1..n.size |-> EdgeAt(n, j - 1)]

\* Offset in data[] of raxNodeLastChildPtr(n) and raxNodeFirstChildPtr(n).
raxNodeLastChildPtr(n) ==
    raxNodeCurrentLength(n) - PTR
        - (IF n.iskey /\ ~n.isnull THEN PTR ELSE 0) - HDR
raxNodeFirstChildPtr(n) == n.size

\* Offset in data[] where raxSetData and raxGetData find the value.
DataOffset(n) == raxNodeCurrentLength(n) - PTR - HDR

\* A value word is the NULL pointer.
IsNull(w) == w = NullWord

raxReallocForData(n, data) ==
    IF IsNull(data) THEN n ELSE Resize(n, raxNodeCurrentLength(n) + PTR)

raxSetData(n, data) ==
    LET n1 == [n EXCEPT !.iskey = TRUE]
    IN IF ~IsNull(data)
       THEN [WriteWord(n1, DataOffset(n1), data) EXCEPT !.isnull = FALSE]
       ELSE [n1 EXCEPT !.isnull = TRUE]

raxGetData(n) ==
    IF n.isnull THEN NullWord ELSE ReadWord(n, DataOffset(n))

\* memcpy(&w, raxNodeLastChildPtr(n), sizeof(w)) and the memcpy back.
LastChild(n) == ReadWord(n, raxNodeLastChildPtr(n))
SetLastChild(n, w) == WriteWord(n, raxNodeLastChildPtr(n), w)

\* The insertion position raxAddChild finds for the character c (a char).
AddChildPos(n, c) ==
    LET after == {pos \in 0..(n.size - 1) : EdgeAt(n, pos) > AsChar(c)}
    IN IF after = {} THEN n.size
       ELSE CHOOSE pos \in after : \A q \in after : pos <= q

\* The three memmove calls of raxAddChild on the reallocated record n: the
\* value, the child pointers from pos on, the edges and pointers before.
AddChildShift(n, pos) ==
    MemMove(
        MemMove(
            IF n.iskey /\ ~n.isnull
            THEN MemMove(n, n.size + PTR * n.size + 1 + PTR,
                         n.size + PTR * n.size, PTR)
            ELSE n,
            n.size + PTR * pos + 1 + PTR, n.size + PTR * pos,
            PTR * (n.size - pos)),
        pos + 1, pos, n.size - pos + PTR * pos)

\* n->data[pos] = c; n->size++; memcpy(childfield, &child, sizeof(child))
AddChildStore(n, pos, c, child) ==
    [n |-> WriteWord([WriteChars(n, pos, <<c>>) EXCEPT !.size = n.size + 1],
                     n.size + 1 + PTR * pos, PtrWord(child)),
     off |-> n.size + 1 + PTR * pos]

AddChildAt(n, pos, c, child) ==
    AddChildStore(AddChildShift(n, pos), pos, c, child)

\* raxAddChild on the record: the record after the new edge c and the pointer
\* to the new child are in place, and the offset of that pointer.
raxAddChild(n0, c, child) ==
    AddChildAt(Resize(n0, HDR + n0.size + PTR * n0.size
                            + (IF n0.iskey THEN PTR ELSE 0) + PTR + 1),
               AddChildPos(n0, c), c, child)

\* The end of raxCompressNode: the value is put back, and the child field
\* receives the bytes of the parameter 'child' itself, the address of the
\* caller's variable.
CompressStore(n, data) ==
    SetLastChild(IF n.iskey THEN raxSetData(n, data) ELSE n, StackWord)

\* raxCompressNode on the record: the record turned into a compressed node
\* for the string s, and the offset of its child field.
raxCompressNode(n0, s) ==
    CompressStore(
        WriteChars([Resize(n0, HDR + Len(s) + PTR
                                 + (IF n0.iskey /\ ~n0.isnull THEN PTR ELSE 0))
                      EXCEPT !.iscompr = TRUE, !.size = Len(s)], 0, s),
        IF n0.iskey THEN raxGetData(n0) ELSE NullWord)

\* A record and the offset of its last child pointer.
WithLastChildPtr(n) == [n |-> n, off |-> raxNodeLastChildPtr(n)]

\* ------------------------------------------------------------------- heap

\* The machine state a call works on: the heap, the rax fields, the next
\* address malloc hands out, whether undefined behaviour was met, the number
\* of allocations that succeed before one fails (-1: none fails), and
\* whether an allocation failed (errno is ENOMEM).
Machine == [mem |-> mem, head |-> head, numele |-> numele,
            numnodes |-> numnodes, next |-> Cardinality(DOMAIN mem) + 1,
            ub |-> FALSE, fail |-> -1, enomem |-> FALSE]

Undefined(M) == [M EXCEPT !.ub = TRUE]

\* rax->numnodes++ and rax->numele++
IncNodes(M) == [M EXCEPT !.numnodes = M.numnodes + 1]
IncEle(M) == [M EXCEPT !.numele = M.numele + 1]

\* One call of malloc or realloc by raxInsert.  The call that fails returns
\* NULL, and every caller in raxInsert writes through the pointer it gets
\* without a check (raxNewNode: node->iskey = 0): undefined behaviour.
Allocation(M) ==
    IF M.fail > 0 THEN [M EXCEPT !.fail = M.fail - 1]
    ELSE IF M.fail = 0 THEN [M EXCEPT !.ub = TRUE, !.enomem = TRUE, !.fail = -1]
    ELSE M

\* malloc: the new record lives at M.next.
Alloc(M, n) ==
    [Allocation(M) EXCEPT !.mem = (M.next :> n) @@ M.mem, !.next = M.next + 1]

Free(M, a) ==
    IF a \in DOMAIN M.mem
    THEN [M EXCEPT !.mem = [x \in (DOMAIN M.mem) \ {a} |-> M.mem[x]]]
    ELSE Undefined(M)

\* Store the record n at the live address a.
Put(M, a, n) ==
    IF a \in DOMAIN M.mem THEN [M EXCEPT !.mem[a] = n] ELSE Undefined(M)

\* realloc of the node at a into the record n: in place, or (mv) moved to a
\* new address with the old one freed.  ReallocAddr is the address returned,
\* NextAddr the address of the malloc that follows.
ReallocAddr(M, a, mv) == IF mv THEN M.next ELSE a
NextAddr(M, mv) == IF mv THEN M.next + 1 ELSE M.next
Realloc(M, a, n, mv) ==
    IF mv THEN Alloc(Free(M, a), n) ELSE Put(Allocation(M), a, n)

\* A word holds a pointer to a live node.
IsNodePtr(M, w) == w[1][1] = "p" /\ w = PtrWord(w[1][2]) /\ w[1][2] \in DOMAIN M.mem
AddrOf(w) == w[1][2]

\* A parent link: the place a node pointer is stored, &rax->head (node 0)
\* or the bytes at offset off of data[] of a node.
HeadLink == [node |-> 0, off |-> 0]
Link(a, off) == [node |-> a, off |-> off]

\* memcpy(parentlink, &w, sizeof(w)) for a pointer word w.
StoreLinkWord(M, plink, w) ==
    IF plink.node = 0
    THEN IF IsNodePtr(M, w) THEN [M EXCEPT !.head = AddrOf(w)] ELSE Undefined(M)
    ELSE IF plink.node \in DOMAIN M.mem
         THEN Put(M, plink.node, WriteWord(M.mem[plink.node], plink.off, w))
         ELSE Undefined(M)
StoreLink(M, plink, a) == StoreLinkWord(M, plink, PtrWord(a))

\* -------------------------------------------------------------- raxStack

\* Number of pointers the array inside the raxStack holds.
RAXSTACK_STACK_ITEMS == 32

\* The raxStack of one call: the pointers in use (stack[0..items-1]), the
\* capacity, whether stack points to the heap rather than to static_items,
\* whether stack is NULL after a realloc that failed, whether memcpy wrote
\* through the NULL a failed malloc returned, and the number of malloc and
\* realloc calls made for the stack.
raxStackInit ==
    [stack |-> <<>>, items |-> 0, maxitems |-> RAXSTACK_STACK_ITEMS,
     heap |-> FALSE, null |-> FALSE, ub |-> FALSE, allocs |-> 0]

\* A push that stores the pointer in the slot of the item on top as well.
StackStoreOverTop(ts, ptr) ==
    [ts EXCEPT !.stack = IF ts.items = 0 THEN <<ptr>>
                         ELSE SubSeq(ts.stack, 1, ts.items - 1) \o <<ptr, ptr>>,
               !.items = ts.items + 1,
               !.null = FALSE]

\* ts->stack[ts->items] = ptr; ts->items++.  A block realloc(NULL, ...)
\* returned holds no pointer of the old one: -1 is a word that is none.
StackStore(ts, ptr) ==
    [ts EXCEPT !.stack = Append(IF ts.null THEN [t \in 1..ts.items |-> -1]
                                ELSE ts.stack, ptr),
               !.items = ts.items + 1,
               !.null = FALSE]

\* The stack is full: malloc (with the memcpy that precedes the test for
\* NULL) or realloc of twice the capacity; nomem says that the call fails.
StackGrow(ts, ptr, nomem) ==
    IF nomem
    THEN [ts EXCEPT !.allocs = ts.allocs + 1,
                    !.ub = ts.ub \/ ~ts.heap,
                    !.heap = TRUE,
                    !.null = TRUE]
    ELSE StackStore([ts EXCEPT !.allocs = ts.allocs + 1,
                               !.heap = TRUE,
                               !.maxitems = ts.maxitems * 2], ptr)

\* raxStackPush while the allocation number M.fail of the call fails.
raxStackPush(M, ts, ptr) ==
    IF ts.items = ts.maxitems THEN StackGrow(ts, ptr, M.fail = ts.allocs)
    ELSE StackStore(ts, ptr)

raxStackPeek(ts) ==
    IF ts.items = 0 THEN 0 ELSE IF ts.null THEN -1 ELSE ts.stack[ts.items]
\* The popped item (0 is NULL) and the stack that remains.
raxStackPop(ts) ==
    IF ts.items = 0 THEN [item |-> 0, ts |-> ts]
    ELSE [item |-> raxStackPeek(ts),
          ts |-> [ts EXCEPT !.stack = SubSeq(ts.stack, 1, Len(ts.stack) - 1),
                            !.items = ts.items - 1]]

\* The allocator after the walk made the allocations of the stack ts.
StackAllocations(M, ts) ==
    IF M.fail < 0 THEN M
    ELSE IF M.fail < ts.allocs THEN [M EXCEPT !.fail = -1, !.enomem = TRUE]
    ELSE [M EXCEPT !.fail = M.fail - ts.allocs]

\* ------------------------------------------------------------------ walk

\* Number of characters the for loop of a compressed node matches: the
\* largest m with m <= size, i + m <= len and v[t] == s[i+t] for all t < m.
ComprMatch(n, s, i) ==
    LET bad == {t \in 0..(Min(n.size, Len(s) - i) - 1) :
                   AsChar(EdgeAt(n, t)) # s[i + t + 1]}
    IN IF bad = {} THEN Min(n.size, Len(s) - i)
       ELSE CHOOSE t \in bad : \A q \in bad : t <= q

\* Index of the first edge of a normal node equal to the character ch, or
\* size when there is none.
ChildIndex(n, ch) ==
    LET hit == {t \in 0..(n.size - 1) : AsChar(EdgeAt(n, t)) = ch}
    IN IF hit = {} THEN n.size ELSE CHOOSE t \in hit : \A q \in hit : t <= q

\* What raxLowWalk hands back: the characters consumed, the stop node, its
\* parent link, j, the stack of parents, and whether a child pointer that
\* is no pointer to a live node was followed.
Stopped(i, h, plink, j, ts, ub) ==
    [i |-> i, h |-> h, plink |-> plink, j |-> j, ts |-> ts, ub |-> ub,
     go |-> FALSE]

\* The same locals at the end of a round of the while loop that moved to a
\* child: the loop goes on.
Descend(i, h, plink, j, ts) ==
    [i |-> i, h |-> h, plink |-> plink, j |-> j, ts |-> ts, ub |-> FALSE,
     go |-> TRUE]

\* The end of one round of the loop: the child word w at offset off of the
\* node h is followed, j being the index the round ended with.
WalkInto(M, s, h, plink, i, j, ts, off, w) ==
    IF raxStackPush(M, ts, h).ub
    THEN Stopped(i, h, plink, j, raxStackPush(M, ts, h), TRUE)
    ELSE IF ~IsNodePtr(M, w) THEN Stopped(i, h, plink, j, ts, TRUE)
    ELSE Descend(i, AddrOf(w), Link(h, off),
                 IF M.mem[AddrOf(w)].iscompr THEN 0 ELSE j,
                 raxStackPush(M, ts, h))

\* The child at index j of the node h is followed.
WalkChild(M, s, h, plink, i, j, ts) ==
    WalkInto(M, s, h, plink, i, j, ts,
             raxNodeFirstChildPtr(M.mem[h]) + PTR * j,
             ReadWord(M.mem[h], raxNodeFirstChildPtr(M.mem[h]) + PTR * j))

\* One round in the compressed node h, m characters of which match.
WalkCompr(M, s, h, plink, i, ts, m) ==
    IF m # M.mem[h].size THEN Stopped(i + m, h, plink, m, ts, FALSE)
    ELSE WalkChild(M, s, h, plink, i + m, 0, ts)

\* One round in the normal node h, c being the index of the matching edge.
WalkNormal(M, s, h, plink, i, ts, c) ==
    IF c = M.mem[h].size THEN Stopped(i, h, plink, c, ts, FALSE)
    ELSE WalkChild(M, s, h, plink, i + 1, c, ts)

\* One round of the while loop of raxLowWalk in the node h, reached
\* through plink, with i characters of s consumed and the node index j.
WalkRound(M, s, h, plink, i, j, ts) ==
    IF ~(M.mem[h].size # 0 /\ i < Len(s)) THEN Stopped(i, h, plink, j, ts, FALSE)
    ELSE IF M.mem[h].iscompr
    THEN WalkCompr(M, s, h, plink, i, ts, ComprMatch(M.mem[h], s, i))
    ELSE WalkNormal(M, s, h, plink, i, ts, ChildIndex(M.mem[h], s[i + 1]))

\* The while loop: rounds from the locals w until one stops.
RECURSIVE WalkOn(_, _, _)
WalkOn(M, s, w) ==
    IF w.go THEN WalkOn(M, s, WalkRound(M, s, w.h, w.plink, w.i, w.j, w.ts))
    ELSE w

\* raxLowWalk from the node h.
WalkFrom(M, s, h, plink, i, j, ts) ==
    WalkOn(M, s, Descend(i, h, plink, j, ts))

\* raxLowWalk with ts == NULL, as raxFind and raxInsert call it: nothing is
\* allocated, and the stack of the result is the path of parents, which the
\* call itself does not collect.
raxLowWalk(M, s) ==
    WalkFrom([M EXCEPT !.fail = -1], s, M.head, HeadLink, 0, 0, raxStackInit)

\* The split position raxLowWalk reports through *splitpos: written only
\* when the stop node is compressed; the caller's j was initialised to 0.
SplitPos(M, w) == IF M.mem[w.h].iscompr THEN w.j ELSE 0

\* ---------------------------------------------------------------- raxFind

NotFoundWord == Word("n", 0)

\* raxFind after the walk w.
FindAt(M, s, w) ==
    IF w.ub THEN UBWord
    ELSE IF w.i # Len(s) THEN NotFoundWord
    ELSE IF M.mem[w.h].iskey THEN raxGetData(M.mem[w.h]) ELSE NotFoundWord

raxFind(M, s) == FindAt(M, s, raxLowWalk(M, s))

\* -------------------------------------------------------------- raxInsert

\* RAX_NODE_MAX_SIZE, the largest value of the 29 bit size field.
RAX_NODE_MAX_SIZE == 2^29 - 1

\* malloc of a node of the given size holding the characters
\* data[from .. from+size-1] of the node n (the trimmed and postfix nodes).
SplitPart(n, from, size, iskey, isnull, extra) ==
    NodeRec(iskey, isnull, size > 1, size,
            SubSeq(n.data, from + 1, from + size) \o Fill(PTR + extra))

\* h = raxReallocForData(h, data); memcpy(parentlink, &h, sizeof(h));
\* raxSetData(h, data), for the node h that is no key yet.
StoreValue(M, h, plink, data, mv) ==
    IF IsNull(data)
    THEN StoreLink(Put(M, h, raxSetData(M.mem[h], data)), plink, h)
    ELSE StoreLink(Realloc(M, h,
                           raxSetData(raxReallocForData(M.mem[h], data), data),
                           mv),
                   plink, ReallocAddr(M, h, mv))

\* The full match outside the middle of a compressed node: the stop node h
\* has its value replaced in place, or becomes a key.
InsertAtNode(M, h, plink, data, mv) ==
    IF M.mem[h].iskey
    THEN [M |-> Put(M, h, raxSetData(M.mem[h], data)), ret |-> 0]
    ELSE [M |-> StoreValue(IncEle(M), h, plink, data, mv), ret |-> 1]

\* ALGO 1, 2: the split node for the character at j of the node n, a key
\* with the value of n when j is 0; its child is the postfix word.
SplitNode(n, j, postfix) ==
    SetLastChild(
        IF j = 0 /\ n.iskey
        THEN raxSetData(raxReallocForData(
                 NodeRec(FALSE, FALSE, FALSE, 1, <<n.data[j + 1]>> \o Fill(PTR)),
                 raxGetData(n)), raxGetData(n))
        ELSE NodeRec(FALSE, FALSE, FALSE, 1, <<n.data[j + 1]>> \o Fill(PTR)),
        postfix)

\* ALGO 1, 3b: the trimmed node, the first j characters of n with the key
\* and the value of n; its child is the split node.
TrimmedNode(n, j, asplit) ==
    SetLastChild(
        IF n.iskey /\ ~n.isnull
        THEN raxSetData(SplitPart(n, 0, j, n.iskey, n.isnull, PTR), raxGetData(n))
        ELSE SplitPart(n, 0, j, n.iskey, n.isnull, 0),
        PtrWord(asplit))

\* ALGO 1, 4a: the postfix node, the characters of n after j; its child is
\* the child of n.
PostfixNode(n, j) ==
    SetLastChild(SplitPart(n, j + 1, n.size - j - 1, FALSE, FALSE, 0),
                 LastChild(n))

\* ALGO 1, 3: the split node at asplit takes the place of the node, or the
\* trimmed node does.
Algo1Link(M, n, plink, j, asplit) ==
    IF j = 0 THEN StoreLink(M, plink, asplit)
    ELSE IncNodes(StoreLink(Alloc(M, TrimmedNode(n, j, asplit)), plink, M.next))

\* ALGO 1, 4: the postfix node, when there are characters after j.
Algo1Postfix(M, n, j) ==
    IF n.size - j - 1 # 0 THEN IncNodes(Alloc(M, PostfixNode(n, j))) ELSE M

\* ALGO 1: the walk stopped inside the compressed node h at j on a
\* mismatch.  The result: the machine, the split node and its parent link.
InsertAlgo1(M, h, plink, j) ==
    [M |-> Free(Algo1Postfix(
                    Algo1Link(
                        Alloc(M, SplitNode(M.mem[h], j,
                                     IF M.mem[h].size - j - 1 # 0
                                     THEN PtrWord(IF j = 0 THEN M.next + 1
                                                  ELSE M.next + 2)
                                     ELSE LastChild(M.mem[h]))),
                        M.mem[h], plink, j, M.next),
                    M.mem[h], j),
                h),
     h |-> M.next,
     plink |-> IF j = 0 THEN plink
               ELSE Link(M.next + 1,
                         raxNodeLastChildPtr(TrimmedNode(M.mem[h], j, M.next)))]

\* ALGO 2, 2: the postfix node, the characters of n from j on, a key with
\* the value data; its child is the child of n.
PostfixKeyNode(n, j, data) ==
    SetLastChild(
        raxSetData(SplitPart(n, j, n.size - j, TRUE, FALSE,
                             IF ~IsNull(data) THEN PTR ELSE 0), data),
        LastChild(n))

\* ALGO 2, 3: the trimmed node, the first j characters of n with the key
\* and the value of n; its child is the postfix node.
TrimmedKeyNode(n, j, apost) ==
    SetLastChild(
        IF n.iskey
        THEN raxSetData(SplitPart(n, 0, j, FALSE, FALSE,
                                  IF ~n.isnull THEN PTR ELSE 0), raxGetData(n))
        ELSE SplitPart(n, 0, j, FALSE, FALSE, 0),
        PtrWord(apost))

\* ALGO 2: the walk consumed the key inside the compressed node h at j.
\* The original node h is not freed.
InsertAlgo2(M, h, plink, j, data) ==
    [M |-> IncEle(IncNodes(
               StoreLink(Alloc(Alloc(M, PostfixKeyNode(M.mem[h], j, data)),
                               TrimmedKeyNode(M.mem[h], j, M.next)),
                         plink, M.next + 1))),
     ret |-> 1]

\* The loop appending the missing characters s[i+1 ..] below the node h,
\* and the final store of the value.
RECURSIVE InsertTail(_, _, _, _, _, _, _)

\* The end of one round of the loop: the node h has become the record a.n
\* with the new child behind the pointer at a.off.
TailRound(M, s, i, h, plink, data, mv, a) ==
    InsertTail(StoreLink(Alloc(Realloc(M, h, a.n, mv), raxNewNode(0)),
                         plink, ReallocAddr(M, h, mv)),
               s, i, NextAddr(M, mv), Link(ReallocAddr(M, h, mv), a.off),
               data, mv)

InsertTail(M, s, i, h, plink, data, mv) ==
    IF i < Len(s)
    THEN IF M.mem[h].size = 0 /\ Len(s) - i > 1
         THEN TailRound(IncNodes(M), s, i + Min(Len(s) - i, RAX_NODE_MAX_SIZE),
                        h, plink, data, mv,
                        WithLastChildPtr(raxCompressNode(M.mem[h],
                            SubSeq(s, i + 1,
                                   i + Min(Len(s) - i, RAX_NODE_MAX_SIZE)))))
         ELSE TailRound(IncNodes(M), s, i + 1, h, plink, data, mv,
                        raxAddChild(M.mem[h], s[i + 1], NextAddr(M, mv)))
    ELSE [M |-> StoreValue(IF ~M.mem[h].iskey THEN IncEle(M) ELSE M,
                           h, plink, data, mv),
          ret |-> 1]

\* The rest of raxInsert after ALGO 1 left the split a.
InsertSplit(s, i, data, mv, a) ==
    InsertTail(a.M, s, i, a.h, a.plink, data, mv)

\* raxInsert after the walk w.
InsertAt(M, s, data, mv, w) ==
    IF w.ub THEN [M |-> Undefined(M), ret |-> 0]
    ELSE IF w.i = Len(s) /\ (~M.mem[w.h].iscompr \/ SplitPos(M, w) = 0)
    THEN InsertAtNode(M, w.h, w.plink, data, mv)
    ELSE IF M.mem[w.h].iscompr /\ w.i # Len(s)
    THEN InsertSplit(s, w.i, data, mv,
                     InsertAlgo1(M, w.h, w.plink, SplitPos(M, w)))
    ELSE IF M.mem[w.h].iscompr /\ w.i = Len(s)
    THEN InsertAlgo2(M, w.h, w.plink, SplitPos(M, w), data)
    ELSE InsertTail(M, s, w.i, w.h, w.plink, data, mv)

raxInsert(M, s, data, mv) == InsertAt(M, s, data, mv, raxLowWalk(M, s))

\* -------------------------------------------------------------- raxRemove

\* Number of pointer-sized steps from the offset off of the node n to the
\* first word that is a pointer to child; -1 when the scan leaves the record
\* without finding one.
ScanForChild(n, off, child) ==
    LET hit == {t \in 0..Len(n.data) : ReadWord(n, off + PTR * t) = PtrWord(child)}
    IN IF hit = {} THEN -1 ELSE CHOOSE t \in hit : \A q \in hit : t <= q

\* The link at step t (see ScanForChild) of the children of parent.
ParentLinkAt(parent, first, t) ==
    Link(IF t < 0 THEN -1 ELSE parent, first + PTR * t)

\* raxFindParentLink: the link of parent that holds child.
raxFindParentLink(M, parent, child) ==
    ParentLinkAt(parent, raxNodeFirstChildPtr(M.mem[parent]),
                 ScanForChild(M.mem[parent],
                              raxNodeFirstChildPtr(M.mem[parent]), child))

\* raxRemoveChild for a compressed parent: a new empty node that keeps the
\* key and the value.  The parent itself is not freed.
RemoveChildCompr(n) ==
    IF n.iskey
    THEN raxSetData(raxReallocForData(raxNewNode(0), raxGetData(n)), raxGetData(n))
    ELSE raxNewNode(0)

\* realloc(parent, raxNodeCurrentLength(parent)) on the record.
Shrink(n) == Resize(n, raxNodeCurrentLength(n))

\* raxRemoveChild for a normal parent that also moves a value slot up
\* whenever the parent is a key, whether the value is null or not.
RemoveChildAtMovingValue(n, cp, e) ==
    IF e < 0 \/ n.size - e - 1 < 0 THEN [n EXCEPT !.oob = TRUE]
    ELSE Shrink([MemMove(
                     MemMove(
                         MemMove(
                             MemMove(n, e, e + 1, n.size - e - 1),
                             cp - 1, cp, (n.size - (n.size - e - 1) - 1) * PTR),
                         cp + PTR * e - 1, cp + PTR * e + PTR,
                         (n.size - e - 1) * PTR),
                     cp + PTR * n.size - PTR - 1, cp + PTR * n.size,
                     IF n.iskey THEN PTR ELSE 0)
                   EXCEPT !.size = n.size - 1])

\* raxRemoveChild for a normal parent, 3 and 4: the edge at index e and its
\* pointer are taken out by three memmove calls (cp is the offset of the
\* first child pointer), the size is decremented, the record reallocated.
RemoveChildAt(n, cp, e) ==
    IF e < 0 \/ n.size - e - 1 < 0 THEN [n EXCEPT !.oob = TRUE]
    ELSE Shrink([MemMove(
                     MemMove(
                         MemMove(n, e, e + 1, n.size - e - 1),
                         cp - 1, cp, (n.size - (n.size - e - 1) - 1) * PTR),
                     cp + PTR * e - 1, cp + PTR * e + PTR,
                     (n.size - e - 1) * PTR)
                   EXCEPT !.size = n.size - 1])

\* raxRemoveChild for a normal parent, 1 and 2: the scan for the pointer.
RemoveChildNormal(n, child) ==
    RemoveChildAt(n, raxNodeLastChildPtr(n) - PTR * (n.size - 1),
                  ScanForChild(n, raxNodeLastChildPtr(n) - PTR * (n.size - 1),
                               child))

\* raxRemoveChild(parent, child): the machine and the address returned.
raxRemoveChild(M, parent, child, mv) ==
    IF M.mem[parent].iscompr
    THEN [M |-> Alloc(M, RemoveChildCompr(M.mem[parent])), new |-> M.next]
    ELSE [M |-> Realloc(M, parent, RemoveChildNormal(M.mem[parent], child), mv),
          new |-> ReallocAddr(M, parent, mv)]

\* A node the pruning and the recompression stop at: a key, or a normal
\* node whose number of children is not one.
StopsChain(n) == n.iskey \/ (~n.iscompr /\ n.size # 1)

\* What the pruning loop leaves: the machine, the node the loop ended at,
\* the last node freed (0 is NULL) and the stack.
Pruned(M, h, child, ts) == [M |-> M, h |-> h, child |-> child, ts |-> ts]

\* The loop freeing the childless node h and its single-child, non-key
\* parents.
RECURSIVE PruneUp(_, _, _, _)

\* One round of the loop after free(child): h is popped.
PrunePop(M, child, pop) ==
    IF pop.item \notin DOMAIN M.mem
    THEN Pruned(Undefined(M), M.head, child, pop.ts)
    ELSE IF StopsChain(M.mem[pop.item])
    THEN Pruned(M, pop.item, child, pop.ts)
    ELSE PruneUp(M, pop.item, child, pop.ts)

PruneUp(M, h, child, ts) ==
    IF h = M.head THEN Pruned(M, h, child, ts)
    ELSE PrunePop([Free(M, h) EXCEPT !.numnodes = M.numnodes - 1], h,
                  raxStackPop(ts))

\* The loop moving h up to the highest node that can be compressed.  The
\* result: that node and its parent (0 is NULL).
RECURSIVE SeekStart(_, _, _)
SeekPop(M, h, pop) ==
    IF pop.item = 0 \/ StopsChain(M.mem[pop.item])
    THEN [h |-> h, parent |-> pop.item]
    ELSE SeekStart(M, pop.item, pop.ts)
SeekStart(M, h, ts) == SeekPop(M, h, raxStackPop(ts))

\* The scan of the chain below h: the number of nodes and of characters
\* that can be compressed (h itself is counted by the caller).
RECURSIVE ScanChain(_, _, _, _)
ScanNext(M, nodes, comprsize, w) ==
    IF ~IsNodePtr(M, w)
    THEN [nodes |-> nodes, comprsize |-> comprsize, ub |-> TRUE]
    ELSE IF StopsChain(M.mem[AddrOf(w)])
    THEN [nodes |-> nodes, comprsize |-> comprsize, ub |-> FALSE]
    ELSE ScanChain(M, AddrOf(w), nodes + 1, comprsize + M.mem[AddrOf(w)].size)
ScanChain(M, h, nodes, comprsize) ==
    IF M.mem[h].size = 0
    THEN [nodes |-> nodes, comprsize |-> comprsize, ub |-> FALSE]
    ELSE ScanNext(M, nodes, comprsize, LastChild(M.mem[h]))

\* The second scan: the characters of the chain are copied into the new
\* node and the nodes of the chain are freed.  The result: the machine, the
\* new record and the word of the first node that is kept.
RECURSIVE FillChain(_, _, _, _)
FillNext(M, new, comprsize, w) ==
    IF ~IsNodePtr(M, w) \/ StopsChain(M.mem[AddrOf(w)])
    THEN [M |-> M, new |-> new, h |-> w]
    ELSE FillChain(M, AddrOf(w), new, comprsize)
FillChain(M, h, new, comprsize) ==
    IF M.mem[h].size = 0 THEN [M |-> M, new |-> new, h |-> PtrWord(h)]
    ELSE FillNext([Free(M, h) EXCEPT !.numnodes = M.numnodes - 1],
                  [new EXCEPT !.data =
                      SubSeq(new.data, 1, comprsize)
                      \o SubSeq(M.mem[h].data, 1, M.mem[h].size)
                      \o SubSeq(new.data, comprsize + M.mem[h].size + 1,
                                Len(new.data))],
                  comprsize + M.mem[h].size,
                  LastChild(M.mem[h]))

\* The end of the recompression: the parent link of the chain is fixed to
\* point to the new node.
RecompressLink(M, up, anew) ==
    StoreLink(M,
              IF up.parent # 0 THEN raxFindParentLink(M, up.parent, up.h)
              ELSE HeadLink,
              anew)

\* The new node gets its child pointer and is put on the heap.
RecompressStore(up, anew, f) ==
    RecompressLink(Alloc(f.M, SetLastChild(f.new, f.h)), up, anew)

\* The chain from up.h was scanned: when it has more than one node, the new
\* compressed node is made.
RecompressChain(M, up, scan) ==
    IF scan.ub THEN Undefined(M)
    ELSE IF scan.nodes > 1
    THEN RecompressStore(up, M.next,
             FillChain(IncNodes(M), up.h,
                       NodeRec(FALSE, FALSE, TRUE, scan.comprsize,
                               Fill(scan.comprsize + PTR)),
                       0))
    ELSE M

RecompressFrom(M, up) ==
    RecompressChain(M, up, ScanChain(M, up.h, 1, M.mem[up.h].size))

\* The recompression of the chain around the node h.
Recompress(M, h, ts) == RecompressFrom(M, SeekStart(M, h, ts))

\* The end of the pruning branch: the node new, which lost a child, is
\* compressed with its neighbours when it has one child and is no key.
RemoveTryCompress(M, new, ts) ==
    IF M.mem[new].size = 1 /\ ~M.mem[new].iskey
    THEN [M |-> Recompress(M, new, ts), ret |-> 1]
    ELSE [M |-> M, ret |-> 1]

\* The node pr.h lost the child pr.child and is now at rc.new: its parent
\* link is fixed when it moved.
RemoveRelink(pr, rc) ==
    RemoveTryCompress(
        IF rc.new # pr.h
        THEN StoreLink(rc.M,
                       IF raxStackPeek(pr.ts) = 0 THEN HeadLink
                       ELSE raxFindParentLink(rc.M, raxStackPeek(pr.ts), pr.h),
                       rc.new)
        ELSE rc.M,
        rc.new, pr.ts)

\* After the pruning loop: the last node freed is taken out of its parent.
RemoveUnlink(pr, mv) ==
    IF pr.child = 0 \/ pr.M.ub THEN [M |-> pr.M, ret |-> 1]
    ELSE RemoveRelink(pr, raxRemoveChild(pr.M, pr.h, pr.child, mv))

\* The node h has lost its key flag.
RemoveKey(M, h, ts, mv) ==
    IF M.mem[h].size = 0 THEN RemoveUnlink(PruneUp(M, h, 0, ts), mv)
    ELSE IF M.mem[h].size = 1 THEN [M |-> Recompress(M, h, ts), ret |-> 1]
    ELSE [M |-> M, ret |-> 1]

\* raxRemove after the walk w.
RemoveAt(M, s, mv, w) ==
    IF w.ub THEN [M |-> Undefined(M), ret |-> 0]
    ELSE IF w.i # Len(s) \/ ~M.mem[w.h].iskey THEN [M |-> M, ret |-> 0]
    ELSE RemoveKey([M EXCEPT !.mem[w.h].iskey = FALSE,
                             !.numele = M.numele - 1],
                   w.h, w.ts, mv)

\* raxRemove: the walk collects the stack of parents, and the allocations
\* of the stack come before those of the removal.
RemoveWalk(M, s) == WalkFrom(M, s, M.head, HeadLink, 0, 0, raxStackInit)
raxRemove(M, s, mv) ==
    RemoveAt(StackAllocations(M, RemoveWalk(M, s).ts), s, mv, RemoveWalk(M, s))

\* ------------------------------------------------- the reference dictionary

\* The hash table of the fuzz test, as the function from its keys to their
\* values.
htNew == <<>>
htContains(t, s) == s \in DOMAIN t
htAdd(t, s, data) ==
    [ht |-> [k \in (DOMAIN t) \cup {s} |-> IF k = s THEN data ELSE t[k]],
     ret |-> IF htContains(t, s) THEN 0 ELSE 1]
htRem(t, s) ==
    [ht |-> [k \in (DOMAIN t) \ {s} |-> t[k]],
     ret |-> IF htContains(t, s) THEN 1 ELSE 0]
htNotFound == Word("h", 0)
htFind(t, s) == IF htContains(t, s) THEN ValWord(t[s]) ELSE htNotFound
htNumele(t) == Cardinality(DOMAIN t)

\* --------------------------------------------------- the heap after a call

\* The offsets in data[] of the child pointers of the node n, in order.
ChildOffsets(n) ==
    [t \in 1..(IF n.iscompr THEN 1 ELSE n.size) |->
        raxNodeFirstChildPtr(n) + PTR * (t - 1)]

\* The offsets of the child pointers of n that hold a pointer to a node.
LiveOffsets(M, n) ==
    SelectSeq(ChildOffsets(n), LAMBDA off : IsNodePtr(M, ReadWord(n, off)))

\* The nodes the words at the offsets offs of the node n point to.
ChildrenAt(n, offs) == [t \in 1..Len(offs) |-> AddrOf(ReadWord(n, offs[t]))]

\* The nodes the child pointers of the node at a lead to, in order.
Children(M, a) == ChildrenAt(M.mem[a], LiveOffsets(M, M.mem[a]))

\* The nodes reachable from a, parents before children, children in order
\* (the nodes raxRecursiveFree visits).
RECURSIVE PreorderAll(_, _)
PreorderAll(M, as) ==
    IF as = <<>> THEN <<>>
    ELSE <<Head(as)>> \o PreorderAll(M, Children(M, Head(as)) \o Tail(as))
Preorder(M, a) == PreorderAll(M, <<a>>)

\* Addresses carry no meaning of their own: after a call the reachable nodes
\* are renamed 1, 2, ... in preorder, and a pointer to a record that is not
\* reachable becomes the pointer 0.
IndexIn(order, a) ==
    LET hit == {t \in 1..Len(order) : order[t] = a}
    IN IF hit = {} THEN 0 ELSE CHOOSE t \in hit : \A q \in hit : t <= q
RenameByte(order, b) ==
    IF b[1] = "p" THEN <<"p", IndexIn(order, b[2]), b[3]>> ELSE b
RenameNode(order, n) ==
    [n EXCEPT !.data = [k \in 1..Len(n.data) |-> RenameByte(order, n.data[k])]]

\* A call ran into undefined behaviour: a pointer that is none was
\* followed, or bytes outside a record were read or written.
Faulted(M) ==
    \/ M.ub
    \/ \E a \in DOMAIN M.mem :
          \/ M.mem[a].oob
          \/ \E k \in 1..Len(M.mem[a].data) : M.mem[a].data[k][1] = "x"

\* The state a call leaves, order being the reachable nodes: the renamed
\* heap and the number of records that are allocated but not reachable.
SettleIn(M, order) ==
    [mem |-> [t \in 1..Len(order) |-> RenameNode(order, M.mem[order[t]])],
     head |-> 1,
     numele |-> M.numele,
     numnodes |-> M.numnodes,
     lost |-> Cardinality((DOMAIN M.mem) \ {order[t] : t \in 1..Len(order)})]

Settle(M) == SettleIn(M, Preorder(M, M.head))

\* ------------------------------------------------------------ the program

\* raxNew(): an empty tree; the reference dictionary is empty too.  The
\* build decides whether plain char is signed.
Init ==
    /\ mem = <<raxNewNode(0)>>
    /\ head = 1
    /\ numele = 0
    /\ numnodes = 1
    /\ leaked = 0
    /\ ref = htNew
    /\ charSigned \in BOOLEAN
    /\ fault = FALSE
    /\ calls = 0
    /\ last = [op |-> "new", key |-> <<>>, ret |-> 0, ht |-> 0]

\* The run goes on: no call crashed, and calls are left.
Running == ~fault /\ calls < MaxCalls

\* What a call that ran into undefined behaviour leaves behind: the
\* reference dictionary was updated before the call, the tree is of no use.
Crash(op, k, t) ==
    /\ fault' = TRUE
    /\ ref' = t.ht
    /\ calls' = calls + 1
    /\ last' = [op |-> op, key |-> k, ret |-> -1, ht |-> t.ret]
    /\ UNCHANGED <<mem, head, numele, numnodes, leaked, charSigned>>

\* What a call that ran to its end leaves behind: the heap c, the value
\* ret returned, and what the reference dictionary gave, t.
Leave(op, k, ret, c, t) ==
    /\ mem' = c.mem
    /\ head' = c.head
    /\ numele' = c.numele
    /\ numnodes' = c.numnodes
    /\ leaked' = leaked + c.lost
    /\ ref' = t.ht
    /\ calls' = calls + 1
    /\ last' = [op |-> op, key |-> k, ret |-> ret, ht |-> t.ret]
    /\ UNCHANGED <<charSigned, fault>>

\* The run is bounded by the number of records it has allocated.
Return(op, k, ret, c, t) ==
    /\ Len(c.mem) + leaked + c.lost <= MaxAlloc
    /\ Leave(op, k, ret, c, t)

\* The call op of the key k gave r on the tree and t on the reference
\* dictionary.
Finish(op, k, r, t) ==
    IF Faulted(r.M) THEN Crash(op, k, t)
    ELSE Return(op, k, r.ret, Settle(r.M), t)

\* One step of the fuzz test: htAdd and raxInsert of the same key and value.
Insert(k, v, mv) ==
    /\ Running
    /\ Finish("insert", k, raxInsert(Machine, k, ValWord(v), mv), htAdd(ref, k, v))

\* One step of the fuzz test: htRem and raxRemove of the same key.
Remove(k, mv) ==
    /\ Running
    /\ Finish("remove", k, raxRemove(Machine, k, mv), htRem(ref, k))

Next ==
    \/ \E k \in Keys, v \in Values, mv \in BOOLEAN : Insert(k, v, mv)
    \/ \E k \in Keys, mv \in BOOLEAN : Remove(k, mv)

Spec == Init /\ [][Next]_vars

\* One step of the out of memory test: raxInsert with the allocation after
\* n successful ones failing (the call makes more than n allocations).  A
\* failed insertion is not counted.
InsertOOM(k, v, mv, n) ==
    /\ Running /\ calls < MaxOomCalls
    /\ \E r \in {raxInsert([Machine EXCEPT !.fail = n], k, ValWord(v), mv)} :
          /\ r.M.enomem
          /\ Finish("oom", k, r, [ht |-> ref, ret |-> 0])

\* The out of memory test: insertions, some of them out of memory.
NextOOM ==
    \/ \E k \in Keys, v \in Values, mv \in BOOLEAN : Insert(k, v, mv)
    \/ \E k \in Keys, v \in Values, mv \in BOOLEAN, n \in 0..MaxFail :
          InsertOOM(k, v, mv, n)

SpecOOM == Init /\ [][NextOOM]_vars

\* The key of n characters a, and the keys the deep run goes on with: the
\* longest ones, and one that is not stored.
RepA(n) == [t \in 1..n |-> 97]
DeepKeys == {RepA(n) : n \in (MaxDeep - MaxDeepCalls)..(MaxDeep + 1)}

\* The run so far is the deep run: it inserted the keys a, aa, ... with the
\* value 1, one per call, and nothing else.
DeepSoFar ==
    /\ ~fault
    /\ DOMAIN ref = {RepA(n) : n \in 1..calls}
    /\ \A k \in DOMAIN ref : ref[k] = 1

\* The deep run has made its insertions and goes on.
DeepRunning == ~fault /\ calls >= MaxDeep /\ calls < MaxDeep + MaxDeepCalls

\* The call op of the deep run gave r and t.
FinishDeep(op, k, r, t) ==
    IF Faulted(r.M) THEN Crash(op, k, t)
    ELSE Leave(op, k, r.ret, Settle(r.M), t)

\* The next insertion of the deep run: a chain of key nodes, one character
\* each, grows below the root.
InsertDeep(mv) ==
    /\ DeepSoFar /\ calls < MaxDeep
    /\ FinishDeep("insert", RepA(calls + 1),
                  raxInsert(Machine, RepA(calls + 1), ValWord(1), mv),
                  htAdd(ref, RepA(calls + 1), 1))

\* htRem and raxRemove of a key of the deep run.
RemoveDeep(k, mv) ==
    /\ DeepRunning
    /\ FinishDeep("remove", k, raxRemove(Machine, k, mv), htRem(ref, k))

\* raxRemove of a key while the allocation that grows the stack of parents
\* fails.
RemoveStackOOM(k, mv) ==
    /\ DeepRunning
    /\ \E M \in {[Machine EXCEPT !.fail = 0]} :
          /\ RemoveWalk(M, k).ts.allocs > 0
          /\ FinishDeep("remove-oom", k, raxRemove(M, k, mv),
                        [ht |-> ref, ret |-> 0])

\* The fuzz test, which the deep run continues: insertions, then removals,
\* some of them out of memory while the stack grows.
NextDeep ==
    \/ \E k \in Keys, v \in Values, mv \in BOOLEAN : Insert(k, v, mv)
    \/ \E k \in Keys, mv \in BOOLEAN : Remove(k, mv)
    \/ \E mv \in BOOLEAN : InsertDeep(mv)
    \/ \E k \in DeepKeys, mv \in BOOLEAN : RemoveDeep(k, mv)
    \/ \E k \in DeepKeys, mv \in BOOLEAN : RemoveStackOOM(k, mv)

SpecDeep == Init /\ [][NextDeep]_vars

\* ------------------------------------------------------------ observations

\* What raxFind(rax, k) returns in the current state.
Find(k) == raxFind(Machine, k)

\* The child links of every node, as raxRecursiveShow follows them.
Links == [a \in DOMAIN mem |-> Children(Machine, a)]

\* The node structure raxShow prints: of every node its key flag, its
\* kind, its characters and its children.
Shape ==
    [a \in DOMAIN mem |->
        [iskey |-> mem[a].iskey, iscompr |-> mem[a].iscompr,
         edges |-> Edges(mem[a]), children |-> Links[a]]]

\* ------------------------------------------------------------------ claims

\* C1: model equivalence.  After any sequence of raxInsert and raxRemove
\* calls on a fresh tree, the keys raxFind does not answer with the NotFound
\* pointer are the keys of the reference dictionary driven by the same
\* calls, and for every stored key raxFind returns the value of the most
\* recent insert of that key.
C1_ModelEquivalence ==
    \A k \in Keys :
        /\ (Find(k) # NotFoundWord) <=> htContains(ref, k)
        /\ htContains(ref, k) => Find(k) = htFind(ref, k)

\* C2: raxFind returns the NotFound pointer for every key that is not
\* stored and never for a stored key, a proper prefix of a stored key that
\* ends inside a compressed node included.
C2_NotFoundIffAbsent ==
    \A k \in Keys : (Find(k) = NotFoundWord) <=> ~htContains(ref, k)

\* C3: raxRemove of a key that is not stored returns 0 and leaves the tree
\* as it was: the bytes of every node, numele and numnodes.
C3_RemoveAbsent ==
    [][(last'.op = "remove" /\ last'.ht = 0) =>
          /\ ~fault'
          /\ last'.ret = 0
          /\ mem' = mem
          /\ numele' = numele
          /\ numnodes' = numnodes]_vars

\* C4: raxInsert returns 1 exactly when the key was not stored before the
\* call and 0 exactly when it was: the value the reference dictionary's add
\* returns over the same history.
C4_InsertReturn ==
    last.op = "insert" => ~fault /\ last.ret = last.ht

\* C5: after every call numele is the number of nodes reachable from the
\* root with the key flag set, which is the number of distinct stored keys.
C5_ElementCount ==
    /\ numele = Cardinality({a \in DOMAIN mem : mem[a].iskey})
    /\ numele = htNumele(ref)

\* C6: maximum compression.  After every call no non-key node with exactly
\* one child has as that child another non-key node with exactly one child.
C6_NoChain ==
    \A a \in DOMAIN mem :
        ~StopsChain(mem[a]) =>
            \A t \in DOMAIN Links[a] : StopsChain(mem[Links[a][t]])

\* C7: the edge bytes of every normal node are pairwise distinct and
\* strictly ascending as unsigned bytes.
C7_EdgesAscending ==
    \A a \in DOMAIN mem :
        ~mem[a].iscompr =>
            \A i, j \in 1..mem[a].size :
                i < j => EdgeAt(mem[a], i - 1) < EdgeAt(mem[a], j - 1)

\* C8: round trip.  After raxInsert(k, v) raxFind(k) returns v; a
\* raxRemove(k) that follows returns 1, and raxFind(k) then returns the
\* NotFound pointer.
C8_RoundTrip ==
    [][\A k \in Keys :
          /\ (last'.op = "insert" /\ last'.key = k) =>
                ~fault' /\ Find(k)' = htFind(ref', k)
          /\ (last.op = "insert" /\ last.key = k
                  /\ last'.op = "remove" /\ last'.key = k) =>
                ~fault' /\ last'.ret = 1 /\ Find(k)' = NotFoundWord]_vars

\* C9: raxInsert of a key that is stored returns 0, raxFind then returns
\* the new value, and numele, numnodes and the node structure are as
\* before the call.
C9_Reinsert ==
    [][\A k \in Keys :
          (last'.op = "insert" /\ last'.key = k /\ htContains(ref, k)) =>
              /\ ~fault'
              /\ last'.ret = 0
              /\ Find(k)' = htFind(ref', k)
              /\ numele' = numele
              /\ numnodes' = numnodes
              /\ Shape' = Shape]_vars

\* C10: a key stored with the null value is found with the null value; an
\* insert that turns the value of a stored key from null to non-null or
\* back makes raxFind return the new value and leaves every child link and
\* the value of every other key as it was.
C10_NullValues ==
    [][\A k \in Keys :
          /\ (~fault' /\ htContains(ref', k) /\ ref'[k] = 0) =>
                Find(k)' = NullWord
          /\ (last'.op = "insert" /\ last'.key = k /\ htContains(ref, k)
                  /\ (ref[k] = 0) # (ref'[k] = 0)) =>
                /\ ~fault'
                /\ Find(k)' = htFind(ref', k)
                /\ Links' = Links
                /\ \A o \in Keys \ {k} : Find(o)' = Find(o)]_vars

\* What the pruning loop of raxRemove leaves, after the walk w stopped at a
\* key node that has no children.
PruneOf(M, w) ==
    PruneUp([M EXCEPT !.mem[w.h].iskey = FALSE, !.numele = M.numele - 1],
            w.h, 0, w.ts)

\* The walk w of the key s ends at a key node without children that is not
\* the root: raxRemove enters its pruning loop.
StopsAtLeafKey(M, s, w) ==
    /\ ~w.ub
    /\ w.i = Len(s)
    /\ M.mem[w.h].iskey
    /\ M.mem[w.h].size = 0
    /\ w.h # M.head

\* The pruning pr ends with raxRemoveChild on a parent that is a key with
\* the null value.
NullKeyParent(pr) ==
    /\ ~pr.M.ub
    /\ pr.child # 0
    /\ pr.M.mem[pr.h].iskey
    /\ pr.M.mem[pr.h].isnull

\* The walk w consumed the n characters of its key and stopped at the node
\* a, not inside its characters: a is the node of that key.
WalkEndsAt(M, w, n, a) ==
    ~w.ub /\ w.i = n /\ w.h = a /\ SplitPos(M, w) = 0

\* C11: a raxRemove that unlinks a child from a parent that is a key with
\* the null value returns 1 without an access outside a record; afterwards
\* the key of the parent is found with the null value and the removed key
\* is not found.
C11_RemoveUnderNullKey ==
    [][\A k \in Keys :
          (last'.op = "remove" /\ last'.key = k) =>
              \A M \in {Machine} : \A w \in {raxLowWalk(M, k)} :
                  StopsAtLeafKey(M, k, w) =>
                      \A pr \in {PruneOf(M, w)} : \A N \in {Machine'} :
                          NullKeyParent(pr) =>
                              /\ ~fault'
                              /\ last'.ret = 1
                              /\ raxFind(N, k) = NotFoundWord
                              /\ \A p \in Keys :
                                    WalkEndsAt(M, raxLowWalk(M, p), Len(p), pr.h)
                                        => raxFind(N, p) = NullWord]_vars

\* A remove has just unlinked the leaf of its key from the node of a
\* shorter key that is stored with the null value.
C11_Witness ==
    /\ last.op = "remove"
    /\ last.ret = 1
    /\ ~fault
    /\ \E p \in Keys :
          /\ Len(p) < Len(last.key)
          /\ SubSeq(last.key, 1, Len(p)) = p
          /\ htContains(ref, p)
          /\ ref[p] = 0
          /\ Find(p) = NullWord
          /\ raxLowWalk(Machine, last.key).h = raxLowWalk(Machine, p).h

\* ----------------------------------------------------- the reference array

\* compareAB: memcmp of the common length, then the shorter key first.
compareAB(keya, keyb) ==
    LET d == {t \in 1..Min(Len(keya), Len(keyb)) : keya[t] # keyb[t]}
    IN IF d # {}
       THEN IF keya[CHOOSE t \in d : \A q \in d : t <= q]
                 < keyb[CHOOSE t \in d : \A q \in d : t <= q]
            THEN -1 ELSE 1
       ELSE IF Len(keya) = Len(keyb) THEN 0
       ELSE IF Len(keya) > Len(keyb) THEN 1 ELSE -1

\* The array of the iterator tests: the keys of the set S after qsort with
\* compareArrayItems.
SortedArray(S) ==
    [t \in 1..Cardinality(S) |->
        CHOOSE k \in S : Cardinality({o \in S : compareAB(o, k) < 0}) = t - 1]

\* The seek operators: op[1] and op[2] are the characters op[0] and op[1]
\* of the C string (eq is op[1] == '=', lt is op[0] == '<', gt is
\* op[0] == '>').
SeekOps == {<<"=", "=">>, <<">", "=">>, <<"<", "=">>, <<">">>, <<"<">>,
            <<"^">>, <<"$">>}

\* The round of the loop of arraySeek at the index t (from 0) ends the loop.
ArrayStop(array, key, op, t) ==
    \/ (Len(op) >= 2 /\ op[2] = "=") /\ compareAB(array[t + 1], key) = 0
    \/ op[1] = ">" /\ compareAB(array[t + 1], key) > 0
    \/ op[1] = "<" /\ compareAB(array[t + 1], key) >= 0

\* What arraySeek returns when its loop ends at the index t, or ran to the
\* end with t = count.
ArrayIndex(array, key, op, t) ==
    IF t = Len(array) THEN IF op[1] = "<" THEN Len(array) - 1 ELSE -1
    ELSE IF (Len(op) >= 2 /\ op[2] = "=") /\ compareAB(array[t + 1], key) = 0 THEN t
    ELSE IF op[1] = ">" /\ compareAB(array[t + 1], key) > 0 THEN t
    ELSE t - 1

\* arraySeek: the index (from 0) of the element the seek gives, or -1.
arraySeek(array, key, op) ==
    IF Len(array) = 0 THEN -1
    ELSE IF op[1] = "^" THEN 0
    ELSE IF op[1] = "$" THEN Len(array) - 1
    ELSE LET stops == {t \in 0..(Len(array) - 1) : ArrayStop(array, key, op, t)}
         IN ArrayIndex(array, key, op,
                       IF stops = {} THEN Len(array)
                       ELSE CHOOSE t \in stops : \A q \in stops : t <= q)

\* ------------------------------------------------------------ the iterator
\* The iterator is described by the specification (section 4.6): an
\* iterator is the sequence of the keys in the order its descent visits
\* them (a node's own key, then its children by ascending index), and the
\* position of the current key in it, which stands for the key buffer, the
\* path stack and the current node.

\* The keys of the subtree of the node at a, whose path from the root spells
\* key, in the order next visits them; a child slot that holds no node is
\* passed over.
RECURSIVE IterFrom(_, _, _), IterChildren(_, _, _, _)
IterFrom(M, a, key) ==
    (IF M.mem[a].iskey THEN <<key>> ELSE <<>>) \o IterChildren(M, a, key, 0)
IterChildren(M, a, key, t) ==
    IF t >= Len(ChildOffsets(M.mem[a])) THEN <<>>
    ELSE (IF IsNodePtr(M, ReadWord(M.mem[a], ChildOffsets(M.mem[a])[t + 1]))
          THEN IterFrom(M, AddrOf(ReadWord(M.mem[a], ChildOffsets(M.mem[a])[t + 1])),
                        key \o (IF M.mem[a].iscompr THEN Edges(M.mem[a])
                                ELSE <<EdgeAt(M.mem[a], t)>>))
          ELSE <<>>)
         \o IterChildren(M, a, key, t + 1)

\* The position seek(op, key) gives the iterator in keys, 0 for EOF.
SeekPos(keys, op, key) ==
    LET ge == {t \in 1..Len(keys) :
                 /\ op[1] = ">"
                 /\ \/ compareAB(keys[t], key) > 0
                    \/ Len(op) >= 2 /\ op[2] = "=" /\ compareAB(keys[t], key) = 0}
        le == {t \in 1..Len(keys) :
                 /\ op[1] = "<"
                 /\ \/ compareAB(keys[t], key) < 0
                    \/ Len(op) >= 2 /\ op[2] = "=" /\ compareAB(keys[t], key) = 0}
        eq == {t \in 1..Len(keys) : keys[t] = key}
        first(S) == CHOOSE t \in S : \A q \in S : t <= q
    IN IF op = <<"^">> THEN (IF Len(keys) = 0 THEN 0 ELSE 1)
       ELSE IF op = <<"$">> THEN Len(keys)
       ELSE IF op = <<"=", "=">> THEN (IF eq = {} THEN 0 ELSE first(eq))
       ELSE IF op \in {<<">">>, <<">", "=">>}
            THEN IF ge = {} THEN 0
                 ELSE first({t \in ge : \A q \in ge : compareAB(keys[t], keys[q]) <= 0})
       ELSE IF op \in {<<"<">>, <<"<", "=">>}
            THEN IF le = {} THEN 0
                 ELSE first({t \in le : \A q \in le : compareAB(keys[t], keys[q]) >= 0})
       ELSE 0

\* The iterator at the position pos of keys: at EOF when there is no such
\* key, and otherwise with the just-seeked flag set.
raxStart(keys, pos) ==
    [keys |-> keys, pos |-> pos, eof |-> pos = 0, just |-> pos # 0]

\* seek(op, key) on a fresh iterator of the tree.
raxSeekIn(keys, op, key) == raxStart(keys, SeekPos(keys, op, key))
raxSeek(M, op, key) == raxSeekIn(IterFrom(M, M.head, <<>>), op, key)

\* next: the key the iterator is at right after a seek, the following key
\* otherwise, EOF when there is none.
raxNext(it) ==
    IF it.eof THEN [it |-> it, ok |-> FALSE]
    ELSE IF it.just THEN [it |-> [it EXCEPT !.just = FALSE], ok |-> TRUE]
    ELSE IF it.pos < Len(it.keys)
         THEN [it |-> [it EXCEPT !.pos = it.pos + 1], ok |-> TRUE]
         ELSE [it |-> [it EXCEPT !.eof = TRUE], ok |-> FALSE]

\* prev: the mirror image of next.
raxPrev(it) ==
    IF it.eof THEN [it |-> it, ok |-> FALSE]
    ELSE IF it.just THEN [it |-> [it EXCEPT !.just = FALSE], ok |-> TRUE]
    ELSE IF it.pos > 1
         THEN [it |-> [it EXCEPT !.pos = it.pos - 1], ok |-> TRUE]
         ELSE [it |-> [it EXCEPT !.eof = TRUE], ok |-> FALSE]

\* The key the iterator is at.
IterKey(it) == it.keys[it.pos]

\* The keys that next (fwd) or prev returns until it returns false.
RECURSIVE Drain(_, _)
Drain(it, fwd) ==
    LET r == IF fwd THEN raxNext(it) ELSE raxPrev(it)
    IN IF r.ok THEN <<IterKey(r.it)>> \o Drain(r.it, fwd) ELSE <<>>

\* C12: a seek to the first key and next until EOF yields every stored key
\* exactly once, in ascending unsigned lexicographic order (the sorted
\* array of the stored keys); a seek to the last key and prev until EOF
\* yields them in exactly the reverse order.
C12_IterationOrder ==
    ~fault =>
        \A A \in {SortedArray(DOMAIN ref)} :
            \A keys \in {IterFrom(Machine, head, <<>>)} :
                /\ Drain(raxSeekIn(keys, <<"^">>, <<>>), TRUE) = A
                /\ Drain(raxSeekIn(keys, <<"$">>, <<>>), FALSE)
                       = [t \in 1..Len(A) |-> A[Len(A) + 1 - t]]

\* Operators that seek does not know.
UnknownOps == {<<"?">>, <<"?", "=">>, <<"=">>}

\* C13: seek(op, k) positions the iterator on the element that arraySeek
\* gives in the sorted array of the stored keys, for every k and every op
\* of "^", "$", "==", ">=", ">", "<=", "<"; when there is no such element
\* the iterator is at EOF, and at EOF next and prev return false; an
\* unrecognized op positions the iterator at EOF.
C13_SeekSemantics ==
    ~fault =>
        \A A \in {SortedArray(DOMAIN ref)} :
            \A keys \in {IterFrom(Machine, head, <<>>)} :
                \A k \in Keys : \A op \in SeekOps \cup UnknownOps :
                    \A it \in {raxSeekIn(keys, op, k)} :
                        /\ op \in SeekOps =>
                              \A idx \in {arraySeek(A, k, op)} :
                                  /\ it.eof <=> idx = -1
                                  /\ ~it.eof => IterKey(it) = A[idx + 1]
                        /\ op \in UnknownOps => it.eof
                        /\ it.eof => ~raxNext(it).ok /\ ~raxPrev(it).ok

\* The step r of an iterator returned the element with the index idx (from
\* 0) of the array, or returned false when idx is -1.
Returned(r, A, idx) ==
    /\ r.ok <=> idx # -1
    /\ r.ok => IterKey(r.it) = A[idx + 1]

\* C14: after a successful seek the first next, and likewise the first
\* prev, returns the key the seek positioned the iterator on, without
\* advancing; the second call moves to the following (for prev the
\* preceding) stored key in order, or to EOF when there is none.
C14_FirstStepReturnsSeeked ==
    ~fault =>
        \A A \in {SortedArray(DOMAIN ref)} :
            \A keys \in {IterFrom(Machine, head, <<>>)} :
                \A k \in Keys : \A op \in SeekOps :
                    \A it \in {raxSeekIn(keys, op, k)} :
                        ~it.eof =>
                            /\ raxNext(it).ok /\ raxPrev(it).ok
                            /\ IterKey(raxNext(it).it) = IterKey(it)
                            /\ IterKey(raxPrev(it).it) = IterKey(it)
                            /\ Returned(raxNext(raxNext(it).it), A,
                                        arraySeek(A, IterKey(it), <<">">>))
                            /\ Returned(raxPrev(raxPrev(it).it), A,
                                        arraySeek(A, IterKey(it), <<"<">>))

\* The set of the keys that seek(op, k) followed by next (fwd) or prev
\* until EOF returns.
Drained(keys, op, k, fwd) ==
    {Drain(raxSeekIn(keys, op, k), fwd)[t] :
        t \in 1..Len(Drain(raxSeekIn(keys, op, k), fwd))}

\* C15: seek duality.  For every key k the keys of seek("<", k) and prev
\* until EOF and the keys of seek(">=", k) and next until EOF are disjoint
\* and together the stored keys, and so are those of "<=" with prev and
\* ">" with next; the traversals of "<=" and ">=" have exactly k in common
\* when k is stored and nothing otherwise; after a successful seek the
\* number of keys next returns until EOF plus the number prev returns
\* until EOF is numele + 1.
C15_SeekDuality ==
    ~fault =>
        \A keys \in {IterFrom(Machine, head, <<>>)} :
            \A k \in Keys :
                /\ \A lt \in {Drained(keys, <<"<">>, k, FALSE)} :
                       \A ge \in {Drained(keys, <<">", "=">>, k, TRUE)} :
                           lt \cap ge = {} /\ lt \cup ge = DOMAIN ref
                /\ \A le \in {Drained(keys, <<"<", "=">>, k, FALSE)} :
                       /\ \A gt \in {Drained(keys, <<">">>, k, TRUE)} :
                              le \cap gt = {} /\ le \cup gt = DOMAIN ref
                       /\ \A ge \in {Drained(keys, <<">", "=">>, k, TRUE)} :
                              le \cap ge = (IF htContains(ref, k) THEN {k} ELSE {})
                /\ \A op \in SeekOps :
                       \A it \in {raxSeekIn(keys, op, k)} :
                           ~it.eof =>
                               Len(Drain(it, TRUE)) + Len(Drain(it, FALSE))
                                   = numele + 1

\* C16: a raxInsert during which an allocation fails returns 0 without
\* crashing or writing through a null pointer, and leaves a structurally
\* valid tree: every node but the root is referenced by exactly one child
\* slot, the edges of normal nodes are strictly increasing, compressed
\* nodes have a size of at least 2 and one child, and numele is the number
\* of the keys that were inserted successfully.
C16_InsertOutOfMemory ==
    last.op = "oom" =>
        /\ ~fault
        /\ last.ret = 0
        /\ \A a \in (DOMAIN mem) \ {head} :
               Cardinality({pt \in (DOMAIN mem) \X (1..MaxKeyLen) :
                               /\ pt[2] \in DOMAIN Links[pt[1]]
                               /\ Links[pt[1]][pt[2]] = a}) = 1
        /\ C7_EdgesAscending
        /\ \A a \in DOMAIN mem :
               mem[a].iscompr => mem[a].size >= 2 /\ Len(Links[a]) = 1
        /\ numele = htNumele(ref)

\* rax->numnodes after raxRecursiveFree(rax, rax->head): one decrement for
\* every node the scan visits.
raxRecursiveFree(M) == M.numnodes - Len(Preorder(M, M.head))

\* C17: after any sequence of raxInsert and raxRemove numnodes is the
\* number of nodes reachable from the root and is at least 1, so that
\* raxFree counts numnodes down to exactly 0 and its assert holds.
C17_NodeCount ==
    ~fault =>
        /\ numnodes >= 1
        /\ numnodes = Cardinality({Preorder(Machine, head)[t] :
                                      t \in 1..Len(Preorder(Machine, head))})
        /\ raxRecursiveFree(Machine) = 0

\* C18: after every raxInsert and raxRemove that returns, the records that
\* were allocated and not freed are exactly the nodes reachable from the
\* root (no record is lost), and every child slot of a reachable node
\* holds a pointer to a live node.
C18_NoLeakNoDangling ==
    ~fault =>
        /\ leaked = 0
        /\ \A a \in DOMAIN mem : Len(Links[a]) = Len(ChildOffsets(mem[a]))

\* C19: every compressed node has a size of at least 2 and exactly one
\* child; a node that spells one character, however a split or a
\* recompression produced it, is a normal node.
C19_CompressedShape ==
    ~fault =>
        \A a \in DOMAIN mem :
            /\ mem[a].iscompr => mem[a].size >= 2 /\ Len(Links[a]) = 1
            /\ mem[a].size = 1 => ~mem[a].iscompr

\* The node h of M is part of a chain that recompression merges: it is no
\* key and has one child, and so is its parent (the top of the stack ts)
\* or its child.
Unmerged(M, h, ts) ==
    /\ ~StopsChain(M.mem[h])
    /\ \/ raxStackPeek(ts) # 0 /\ ~StopsChain(M.mem[raxStackPeek(ts)])
       \/ \E t \in DOMAIN Children(M, h) : ~StopsChain(M.mem[Children(M, h)[t]])

\* C20: a raxRemove that clears the key flag of a stop node with exactly
\* one child, a normal node with one edge or a compressed node, attempts
\* the recompression: the node where the removed key ended is not left
\* as a node of its own next to a node it can be merged with.
C20_RecompressOnKeyLoss ==
    (last.op = "remove" /\ last.ret = 1 /\ ~fault) =>
        \A w \in {raxLowWalk(Machine, last.key)} :
            (~w.ub /\ w.i = Len(last.key) /\ SplitPos(Machine, w) = 0) =>
                ~Unmerged(Machine, w.h, w.ts)

\* The words in the child slots of the record n, in order.
ChildWords(n) ==
    [t \in 1..Len(ChildOffsets(n)) |-> ReadWord(n, ChildOffsets(n)[t])]

\* The sequence s without its element at the index t.
Without(s, t) == SubSeq(s, 1, t - 1) \o SubSeq(s, t + 1, Len(s))

\* raxAddChild of a new edge c keeps the value and the child pointers of n.
AddChildKeeps(n, c) ==
    \A r \in {raxAddChild(n, c, 0)} :
        /\ raxGetData(r.n) = raxGetData(n)
        /\ Without(ChildWords(r.n), AddChildPos(n, c) + 1) = ChildWords(n)

\* raxRemoveChild of the child in the slot t keeps the value and the other
\* child pointers of the normal node n.
RemoveChildKeeps(n, t) ==
    \A r \in {RemoveChildNormal(n, AddrOf(ChildWords(n)[t]))} :
        /\ ~r.oob
        /\ raxGetData(r) = raxGetData(n)
        /\ ChildWords(r) = Without(ChildWords(n), t)

\* C21: for every key node that holds a non-null value, raxAddChild of a
\* new edge, raxRemoveChild of an edge of a normal node or of the child of
\* a compressed node, and raxCompressNode of a key leaf leave a node on
\* which raxGetData returns the value it returned before, with no child
\* pointer overwritten.
C21_ValueSlotPreserved ==
    ~fault =>
        \A a \in DOMAIN mem :
            (mem[a].iskey /\ ~mem[a].isnull) =>
                /\ ~mem[a].iscompr =>
                      /\ \A c \in Bytes :
                            (\A j \in 0..(mem[a].size - 1) : EdgeAt(mem[a], j) # c)
                                => AddChildKeeps(mem[a], c)
                      /\ \A t \in 1..mem[a].size : RemoveChildKeeps(mem[a], t)
                /\ mem[a].iscompr =>
                      raxGetData(RemoveChildCompr(mem[a])) = raxGetData(mem[a])
                /\ mem[a].size = 0 =>
                      \A s \in Keys :
                          Len(s) > 1 =>
                              raxGetData(raxCompressNode(mem[a], s)) = raxGetData(mem[a])

\* The walk w of the key s in M consumed s and stopped inside a compressed
\* node, at a split position j with 0 < j < size.
StopsInside(M, s, w) ==
    /\ ~w.ub /\ w.i = Len(s) /\ M.mem[w.h].iscompr
    /\ SplitPos(M, w) > 0 /\ SplitPos(M, w) < M.mem[w.h].size

\* The node at b of N is the node at a of M as far as its flags, its
\* characters, its value and the keys below it go.
SameNode(M, a, N, b) ==
    /\ N.mem[b].iskey = M.mem[a].iskey /\ N.mem[b].iscompr = M.mem[a].iscompr
    /\ Edges(N.mem[b]) = Edges(M.mem[a])
    /\ N.mem[b].iskey => raxGetData(N.mem[b]) = raxGetData(M.mem[a])
    /\ IterFrom(N, b, <<>>) = IterFrom(M, a, <<>>)

\* The node n is the first j characters of the compressed node h, with the
\* key flag and the value of h.
IsTrimmed(n, h, j) ==
    /\ Edges(n) = SubSeq(Edges(h), 1, j) /\ n.iscompr = (j > 1)
    /\ n.iskey = h.iskey
    /\ n.iskey => raxGetData(n) = raxGetData(h)

\* C22: a raxInsert(k, v) whose walk consumes k and stops inside a
\* compressed node at j, 0 < j < size, returns 1 and leaves a trimmed node
\* with the first j characters (compressed iff j > 1) and the key flag and
\* value of the original, whose only child is a postfix node with the
\* characters from j on (compressed iff size - j > 1), a key with the
\* value v, whose only child is the original child; numnodes and numele
\* grow by exactly 1, no other node is added, and every key stored before
\* keeps its value.
C22_PrefixSplit ==
    [][\A k \in Keys :
          (last'.op = "insert" /\ last'.key = k) =>
              \A M \in {Machine} : \A w \in {raxLowWalk(M, k)} :
                  StopsInside(M, k, w) =>
                      \A N \in {Machine'} : \A x \in {raxLowWalk(N, k)} :
                          /\ ~fault' /\ last'.ret = 1
                          /\ numnodes' = numnodes + 1 /\ numele' = numele + 1
                          /\ Len(mem') = Len(mem) + 1
                          /\ ~x.ub /\ x.i = Len(k) /\ raxStackPeek(x.ts) # 0
                          /\ IsTrimmed(N.mem[raxStackPeek(x.ts)], M.mem[w.h],
                                       SplitPos(M, w))
                          /\ Children(N, raxStackPeek(x.ts)) = <<x.h>>
                          /\ Edges(N.mem[x.h])
                                = SubSeq(Edges(M.mem[w.h]), SplitPos(M, w) + 1,
                                         M.mem[w.h].size)
                          /\ N.mem[x.h].iscompr
                                = (M.mem[w.h].size - SplitPos(M, w) > 1)
                          /\ N.mem[x.h].iskey
                          /\ raxGetData(N.mem[x.h]) = ValWord(ref'[k])
                          /\ Len(Children(N, x.h)) = 1
                          /\ Len(Children(M, w.h)) = 1
                          /\ SameNode(M, Children(M, w.h)[1], N, Children(N, x.h)[1])
                          /\ \A q \in (DOMAIN ref) \ {k} :
                                raxFind(N, q) = raxFind(M, q)]_vars

\* The node at b of N is what ALGO 1 leaves below the split node for the
\* characters of the compressed node h of M after j: the postfix node in
\* front of the child of h, or that child itself when no character is left.
IsPostfix(M, h, j, N, b) ==
    /\ Len(Children(M, h)) = 1
    /\ IF M.mem[h].size - j - 1 = 0 THEN SameNode(M, Children(M, h)[1], N, b)
       ELSE /\ Edges(N.mem[b]) = SubSeq(Edges(M.mem[h]), j + 2, M.mem[h].size)
            /\ N.mem[b].iscompr = (M.mem[h].size - j - 1 > 1)
            /\ ~N.mem[b].iskey
            /\ Len(Children(N, b)) = 1
            /\ SameNode(M, Children(M, h)[1], N, Children(N, b)[1])

\* The node at sp of N is the split node of ALGO 1 for the compressed node
\* h of M, the position j and the new character c: a normal node with the
\* two edges in ascending order, the first leading to the postfix.
IsSplit(M, h, j, c, N, sp) ==
    /\ ~N.mem[sp].iscompr /\ N.mem[sp].size = 2
    /\ Len(Children(N, sp)) = 2
    /\ EdgeAt(M.mem[h], j) # c
    /\ Edges(N.mem[sp]) = (IF EdgeAt(M.mem[h], j) < c
                           THEN <<EdgeAt(M.mem[h], j), c>>
                           ELSE <<c, EdgeAt(M.mem[h], j)>>)
    /\ IsPostfix(M, h, j, N,
                 Children(N, sp)[IF EdgeAt(M.mem[h], j) < c THEN 1 ELSE 2])

\* C23: a raxInsert whose walk stops inside a compressed node at j on a
\* character that differs from the next character of the key leaves a
\* normal split node with exactly two edges in ascending order, the
\* character at j (leading to the postfix node, or to the original child
\* when no character follows j) and the new character; the key flag and
\* the value of the original are on the trimmed node when j > 0 and on the
\* split node when j = 0; every key stored before keeps its value.
C23_MismatchSplit ==
    [][\A k \in Keys :
          (last'.op = "insert" /\ last'.key = k) =>
              \A M \in {Machine} : \A w \in {raxLowWalk(M, k)} :
                  (~w.ub /\ w.i # Len(k) /\ M.mem[w.h].iscompr) =>
                      \A N \in {Machine'} :
                          \A x \in {raxLowWalk(N, SubSeq(k, 1, w.i + 1))} :
                              /\ ~fault' /\ last'.ret = 1
                              /\ ~x.ub /\ x.i = w.i + 1 /\ raxStackPeek(x.ts) # 0
                              /\ IsSplit(M, w.h, SplitPos(M, w), k[w.i + 1],
                                         N, raxStackPeek(x.ts))
                              /\ IF SplitPos(M, w) = 0
                                 THEN /\ N.mem[raxStackPeek(x.ts)].iskey
                                           = M.mem[w.h].iskey
                                      /\ M.mem[w.h].iskey =>
                                            raxGetData(N.mem[raxStackPeek(x.ts)])
                                                = raxGetData(M.mem[w.h])
                                 ELSE /\ x.ts.items >= 2
                                      /\ ~N.mem[raxStackPeek(x.ts)].iskey
                                      /\ IsTrimmed(N.mem[x.ts.stack[x.ts.items - 1]],
                                                   M.mem[w.h], SplitPos(M, w))
                              /\ \A q \in (DOMAIN ref) \ {k} :
                                    raxFind(N, q) = raxFind(M, q)]_vars

\* The number of characters the nodes of the stack ts spell: the length of
\* the path from the root to the node below them.
PathLen(M, ts) ==
    Cardinality({tu \in (1..ts.items) \X (1..MaxKeyLen) :
                    tu[2] <= (IF M.mem[ts.stack[tu[1]]].iscompr
                              THEN M.mem[ts.stack[tu[1]]].size ELSE 1)})

\* The walk w of the key s consumed s and stopped at the compressed node
\* w.h before any of its characters.
StopsAtEntry(M, s, w) ==
    /\ ~w.ub /\ w.i = Len(s) /\ M.mem[w.h].iscompr
    /\ PathLen(M, w.ts) = Len(s)

\* C24: when the walk consumes the whole key and stops at a compressed
\* node without having matched a character of it, the split position
\* reported is 0, and raxInsert sets the key flag and the value on that
\* compressed node itself: the node keeps its characters, and no node is
\* created.
C24_FullMatchAtEntry ==
    [][\A k \in Keys :
          (last'.op = "insert" /\ last'.key = k) =>
              \A M \in {Machine} : \A w \in {raxLowWalk(M, k)} :
                  StopsAtEntry(M, k, w) =>
                      /\ w.j = 0
                      /\ ~fault'
                      /\ numnodes' = numnodes
                      /\ Len(mem') + leaked' = Len(mem) + leaked
                      /\ \A N \in {Machine'} : \A x \in {raxLowWalk(N, k)} :
                            /\ StopsAtEntry(N, k, x) /\ x.j = 0
                            /\ Edges(N.mem[x.h]) = Edges(M.mem[w.h])
                            /\ N.mem[x.h].iskey
                            /\ raxGetData(N.mem[x.h]) = ValWord(ref'[k])]_vars

\* The node c is stored in one of the child slots of the node p.
HoldsChild(M, p, c) ==
    \E t \in 1..Len(ChildOffsets(M.mem[p])) :
        ReadWord(M.mem[p], ChildOffsets(M.mem[p])[t]) = PtrWord(c)

\* The stack of the walk w holds the proper ancestors of the stop node, the
\* root first: it is empty exactly at the root, and every item holds the
\* next one, the last the stop node, in a child slot.
AncestorStack(M, w) ==
    /\ ~w.ts.null
    /\ Len(w.ts.stack) = w.ts.items
    /\ (w.ts.items = 0) = (w.h = M.head)
    /\ w.ts.items > 0 => w.ts.stack[1] = M.head
    /\ \A t \in 1..w.ts.items : \A u \in (t + 1)..w.ts.items :
          w.ts.stack[t] # w.ts.stack[u]
    /\ \A t \in 1..w.ts.items :
          HoldsChild(M, w.ts.stack[t],
                     IF t = w.ts.items THEN w.h ELSE w.ts.stack[t + 1])

\* The pruning pr never popped NULL, and raxRemoveChild and the
\* raxFindParentLink that follows it are called with a child of the parent:
\* rc is what raxRemoveChild returns.
PruneCallsInside(pr, rc) ==
    /\ ~pr.M.ub
    /\ pr.child # 0
    /\ HoldsChild(pr.M, pr.h, pr.child)
    /\ (pr.h = pr.M.head) = (raxStackPeek(pr.ts) = 0)
    /\ (rc.new # pr.h /\ raxStackPeek(pr.ts) # 0)
          => HoldsChild(rc.M, raxStackPeek(pr.ts), pr.h)

\* The node the recompression starts from is held by the parent popped for
\* it, and no parent means that the start is the root.
RecompressCallsInside(M, up) ==
    /\ (up.parent = 0) = (up.h = M.head)
    /\ up.parent # 0 => HoldsChild(M, up.parent, up.h)

\* C25: in every state a call leaves, the stack raxRemove collects for a
\* key holds exactly the proper ancestors of the stop node, root first, so
\* no pop of the pruning or of the recompression yields NULL below the root
\* and every raxRemoveChild and raxFindParentLink is called with a node
\* that one of the child slots of the parent holds.
C25_AncestorStack ==
    ~fault =>
        \A M \in {Machine} : \A k \in Keys \cup DeepKeys :
            \A w \in {RemoveWalk(M, k)} :
            ~w.ub =>
                /\ AncestorStack(M, w)
                /\ StopsAtLeafKey(M, k, w) =>
                      \A pr \in {PruneOf(M, w)} : \A mv \in BOOLEAN :
                          PruneCallsInside(
                              pr, raxRemoveChild(pr.M, pr.h, pr.child, mv))
                /\ (w.i = Len(k) /\ M.mem[w.h].iskey /\ M.mem[w.h].size = 1) =>
                      RecompressCallsInside(M, SeekStart(M, w.h, w.ts))

\* A remove returned 1 in the deep run, and the tree still holds a key in a
\* leaf with more than RAXSTACK_STACK_ITEMS ancestors: the walk of that key
\* spills the stack to the heap, and its removal prunes the leaf.
C25_Witness ==
    /\ ~fault
    /\ last.op = "remove"
    /\ last.ret = 1
    /\ \E k \in DeepKeys : \E w \in {RemoveWalk(Machine, k)} :
          /\ StopsAtLeafKey(Machine, k, w)
          /\ w.ts.heap
          /\ w.ts.items > RAXSTACK_STACK_ITEMS
          /\ w.ts.maxitems = 2 * RAXSTACK_STACK_ITEMS

\* C26: a raxRemove whose walk fails to grow the stack of parents aborts:
\* nothing is written through a null pointer, and the tree is left as it
\* was, with the same keys, elements and nodes.
C26_StackPushFailure ==
    [][last'.op = "remove-oom" =>
          /\ ~fault'
          /\ mem' = mem
          /\ numele' = numele
          /\ numnodes' = numnodes
          /\ \A k \in DeepKeys : Find(k)' = Find(k)]_vars

\* The node the path string p leads to: where the walk of p ends when it
\* consumes p and stops at the entry of a node; 0 when no node has the path.
NodeAt(M, p) ==
    IF WalkEndsAt(M, raxLowWalk(M, p), Len(p), raxLowWalk(M, p).h)
    THEN raxLowWalk(M, p).h ELSE 0

\* C27: after every raxInsert and raxRemove, every node without children
\* other than the root is a key, and the node of a path string is a key
\* exactly when the string is a key currently stored.
C27_PruningComplete ==
    ~fault =>
        /\ \A a \in DOMAIN mem : (mem[a].size = 0 /\ a # head) => mem[a].iskey
        /\ \A p \in Keys : \A a \in {NodeAt(Machine, p)} :
              a # 0 => (mem[a].iskey <=> htContains(ref, p))
        /\ \A p \in DOMAIN ref : NodeAt(Machine, p) # 0

\* The node structure of the heap c, as Shape gives it for the state.
ShapeIn(c) ==
    [a \in DOMAIN c.mem |->
        [iskey |-> c.mem[a].iskey, iscompr |-> c.mem[a].iscompr,
         edges |-> Edges(c.mem[a]), children |-> Children(c, a)]]

\* raxNew() followed by one raxInsert for every key of S, in the order of
\* compareAB, with the values of the dictionary t.
RECURSIVE Rebuild(_, _, _)
Rebuild(M, S, t) ==
    IF S = {} THEN M
    ELSE CHOOSE N \in
             {Rebuild(raxInsert(M, k, ValWord(t[k]), FALSE).M, S \ {k}, t) :
                 k \in {q \in S : \A o \in S : compareAB(q, o) <= 0}} : TRUE

\* The tree c has the structure and the counters of the current state.
SameTree(c) ==
    /\ ShapeIn(c) = Shape
    /\ c.numnodes = numnodes
    /\ c.numele = numele

\* C29: the node structure is a function of the stored keys and values
\* alone.  The tree of every state is the one that inserting its keys in
\* ascending order into an empty tree gives, and inserting a key that is
\* not stored and removing it again gives back the structure, the number
\* of nodes and the number of elements.
C29_CanonicalShape ==
    ~fault =>
        /\ \A R \in {Rebuild([Machine EXCEPT !.mem = <<raxNewNode(0)>>,
                                              !.head = 1, !.numele = 0,
                                              !.numnodes = 1, !.next = 2],
                             DOMAIN ref, ref)} :
              ~Faulted(R) => SameTree(Settle(R))
        /\ \A k \in Keys \ DOMAIN ref :
              \A I \in {raxInsert(Machine, k, ValWord(1), FALSE).M} :
                  ~Faulted(I) =>
                      \A D \in {raxRemove(I, k, FALSE).M} :
                          ~Faulted(D) => SameTree(Settle(D))

\* C30: raxCompressNode of an empty normal node n for a string s returns a
\* compressed node whose characters are s and whose size is the length of
\* s, that is a key exactly when n is and holds the value of n, and whose
\* child pointer refers to the new empty leaf handed back through 'child'.
C30_CompressNodePostcondition ==
    ~fault =>
        \A a \in DOMAIN mem :
            (mem[a].size = 0 /\ ~mem[a].iscompr) =>
                \A s \in Keys :
                    Len(s) > 1 =>
                        \A r \in {raxCompressNode(mem[a], s)} :
                            /\ r.iscompr /\ r.size = Len(s) /\ Edges(r) = s
                            /\ r.iskey = mem[a].iskey
                            /\ r.iskey => raxGetData(r) = raxGetData(mem[a])
                            /\ \E mv \in BOOLEAN :
                                  LastChild(r) = PtrWord(NextAddr(Machine, mv))

====
